---- MODULE Spec2Model ----
(***************************************************************************)
(* Model of PyMol/IC_MBP_docking.py: the commands the script registers     *)
(* with the PyMOL host (interfaceResidues, initial_orientation,            *)
(* reset_view, split_chains, ray_settings, hydrophobicity) acting on the   *)
(* host session (settings, objects, selections, camera view, colours).     *)
(*                                                                         *)
(* Conventions                                                             *)
(*  - A name (object or selection) is a sequence of string fragments, so   *)
(*    that Python's string concatenation is sequence concatenation:        *)
(*    selName+"1" is selName \o <<"1">>, "dock1.pdb" is <<"dock1",".pdb">>. *)
(*  - A floating point literal is kept as its decimal text.  A value the   *)
(*    host computes from the loaded coordinates is the token "host".       *)
(*  - An atom is [chain, resi, d]: d is the value that                     *)
(*    get_area(load_b=1) / alter q=b / get_area / alter b=b-q leave in the *)
(*    atom's b field (area in the single chain minus area in the complex). *)
(*  - interfaceResidues is executed statement by statement by Step, whose  *)
(*    pc values are the line numbers of the source; the action runs the    *)
(*    whole call.  failAt = n makes the n-th host command of the call      *)
(*    raise (0: none does).                                                *)
(***************************************************************************)
EXTENDS Integers, Sequences, FiniteSets, TLC

VARIABLES
    settings,    \* host settings: name -> text value
    objects,     \* host objects: name -> sequence of atoms
    enabled,     \* names of the enabled objects/selections
    selections,  \* host selections: name -> set of [obj, chain, resi]
    view,        \* the camera: 18 values (cmd.get_view / cmd.set_view)
    display,     \* [surface, colorA, colorB]: surface shown, surface_color per chain
    palette,     \* named colours defined with cmd.set_color: name -> RGB
    colorBy,     \* colouring applied: set of <<selection, resn, colour name>>
    displaced,   \* number of split_chains applied to the coordinates
    stored_r,    \* pymol.stored.r, which outlives a call
    oriented,    \* the last completed initial_orientation: its config and the view it left
    last         \* the last command: its arguments, outcome and the state before it

vars == <<settings, objects, enabled, selections, view, display, palette,
          colorBy, displaced, stored_r, oriented, last>>

-----------------------------------------------------------------------------
(* Bounds *)

MaxAtoms == 2
MaxDiff == 1
MaxCutoff == 1
MaxSplits == 1

-----------------------------------------------------------------------------
(* Names and small helpers *)

N(s) == <<s>>

Abs(x) == IF x < 0 THEN -x ELSE x

Range(s) == {s[i] : i \in 1..Len(s)}

Restrict(f, D) == [x \in D |-> f[x]]

Put(f, k, v) == [x \in (DOMAIN f) \cup {k} |-> IF x = k THEN v ELSE f[x]]

Drop(f, k) == Restrict(f, (DOMAIN f) \ {k})

EmptyMap == [x \in {} |-> x]

RECURSIVE SeqsUpTo(_, _)
SeqsUpTo(S, n) ==
    IF n = 0 THEN {<<>>}
    ELSE LET shorter == SeqsUpTo(S, n - 1)
         IN  shorter \cup {Append(s, x) : s \in {t \in shorter : Len(t) = n - 1}, x \in S}

ResidueNumbers == {"1", "2"}

Diffs == (0 - MaxDiff)..MaxDiff

AtomsOf(chains) == [chain : chains, resi : ResidueNumbers, d : Diffs]

-----------------------------------------------------------------------------
(* Host settings *)

DefaultSettings ==
    [s \in {"dot_solvent", "ray_trace_fog", "ray_shadows", "depth_cue", "bg_color",
            "antialias", "hash_max", "ambient"} |->
        IF s = "dot_solvent" THEN "off" ELSE "default"]

\* cmd.get(name): the text of the setting.
cmd_get(st, name) == st[name]

\* cmd.set(name, value): a boolean setting is stored as on/off whatever
\* spelling it is given in.
cmd_set(st, name, value) ==
    [st EXCEPT ![name] =
        IF name = "dot_solvent"
        THEN (IF value \in {"1", "on"} THEN "on" ELSE "off")
        ELSE value]

-----------------------------------------------------------------------------
(* Host objects and selections *)

\* cmd.delete(name): the object or selection of that name goes, and with an
\* object its atoms leave every selection.
HostDelete(f, name) ==
    [f EXCEPT !.objects = Drop(@, name),
              !.enabled = @ \ {name},
              !.selections = [n \in (DOMAIN @) \ {name} |->
                                 {x \in @[n] : x.obj # name}]]

\* Atoms of object obj as members of a selection.
Members(obj, atoms) ==
    {[obj |-> obj, chain |-> x.chain, resi |-> x.resi] : x \in atoms}

-----------------------------------------------------------------------------
(* interfaceResidues, statement by statement.  A frame f holds the host    *)
(* session as the call sees it, the call's locals (oldDS, rVal, seen, the  *)
(* loop position i over stored.r) and its arguments f.a.                   *)

tempC == N("tempComplex")

chA == N("chA")

chB == N("chB")

selName1(f) == f.a.selName \o <<"1">>

Goto(f, line) == [f EXCEPT !.pc = line]

\* A handler that puts dot_solvent back before the exception leaves.
RaiseRestoring(f) ==
    [f EXCEPT !.status = "raised",
              !.settings = cmd_set(@, "dot_solvent", IF f.pc = 60 THEN "off" ELSE f.oldDS)]

\* An exception leaves the routine where it stands: nothing catches it.
Raise(f) == [f EXCEPT !.status = "raised"]

\* line 60: oldDS = cmd.get("dot_solvent")
Line60(f) == [Goto(f, 61) EXCEPT !.oldDS = cmd_get(f.settings, "dot_solvent")]

\* line 61: cmd.set("dot_solvent", 1)
Line61(f) == [Goto(f, 68) EXCEPT !.settings = cmd_set(@, "dot_solvent", "1")]

\* line 68: cmd.create(tempC, cmpx)
Line68(f) ==
    [Goto(f, 69) EXCEPT !.objects = Put(@, tempC, f.objects[f.a.cmpx]),
                        !.enabled = @ \cup {tempC}]

\* line 69: cmd.disable(cmpx)
Line69(f) == [Goto(f, 72) EXCEPT !.enabled = @ \ {f.a.cmpx}]

\* line 72: cmd.remove(tempC and not (polymer and (cA or cB)))
Line72(f) ==
    [Goto(f, 75) EXCEPT !.objects[tempC] =
        SelectSeq(@, LAMBDA x : x.chain \in {f.a.cA, f.a.cB})]

\* lines 75, 77: cmd.get_area(tempC, load_b=1); cmd.alter(tempC, 'q=b')
Line75(f) == Goto(f, 77)

Line77(f) == Goto(f, 82)

\* line 82: cmd.extract(chA, tempC and (cA))
Line82(f) ==
    [Goto(f, 83) EXCEPT
        !.objects = Put(Put(@, chA, SelectSeq(@[tempC], LAMBDA x : x.chain = f.a.cA)),
                        tempC, SelectSeq(@[tempC], LAMBDA x : x.chain # f.a.cA)),
        !.enabled = @ \cup {chA}]

\* line 83: cmd.extract(chB, tempC and (cB))
Line83(f) ==
    [Goto(f, 84) EXCEPT
        !.objects = Put(Put(@, chB, SelectSeq(@[tempC], LAMBDA x : x.chain = f.a.cB)),
                        tempC, SelectSeq(@[tempC], LAMBDA x : x.chain # f.a.cB)),
        !.enabled = @ \cup {chB}]

\* lines 84, 85, 88: cmd.get_area(chA), cmd.get_area(chB), cmd.alter(b=b-q):
\* the host leaves each atom's difference d in its b field.
Line84(f) == Goto(f, 85)

Line85(f) == Goto(f, 88)

Line88(f) == Goto(f, 93)

\* line 93: stored.r, rVal, seen = [], [], []
Line93(f) == [Goto(f, 94) EXCEPT !.r = <<>>, !.rVal = <<>>, !.seen = <<>>]

\* The entries 'stored.r.append((model,resi,b))' adds for one object.
Entries(f, obj) ==
    [k \in 1..Len(f.objects[obj]) |->
        <<obj, f.objects[obj][k].resi, f.objects[obj][k].d>>]

\* line 94: cmd.iterate('chA or chB', 'stored.r.append((model,resi,b))'):
\* one entry per atom, object by object.
Line94(f) == [Goto(f, 96) EXCEPT !.r = @ \o Entries(f, chA) \o Entries(f, chB)]

\* line 96: cmd.enable(cmpx)
Line96(f) == [Goto(f, 97) EXCEPT !.enabled = @ \cup {f.a.cmpx}]

\* line 97: cmd.select(selName1, 'none')
Line97(f) == [Goto(f, 98) EXCEPT !.selections = Put(@, selName1(f), {}), !.i = 1]

\* line 99: key = resi+"-"+model
Key(model, resi) == <<resi, "-">> \o model

\* The test with > for >=.
OverCutoffStrict(diff, cutoff) == Abs(diff) > cutoff

\* line 100: abs(diff) >= float(cutoff)
OverCutoff(diff, cutoff) == Abs(diff) >= cutoff

\* The test that never finds the key.
AlreadySeenNever(key, seen) == FALSE

\* line 101: key in seen
AlreadySeen(key, seen) == key \in Range(seen)

\* lines 98-103: the loop head and the filter on one entry (model, resi, diff)
Line98(f) ==
    IF f.i > Len(f.r) THEN Goto(f, 111)
    ELSE LET e == f.r[f.i]
             key == Key(e[1], e[2])
         IN  IF OverCutoff(e[3], f.a.cutoff)
             THEN IF AlreadySeen(key, f.seen)
                  THEN [f EXCEPT !.i = @ + 1]
                  ELSE [Goto(f, 108) EXCEPT !.seen = Append(@, key),
                                            !.rVal = Append(@, e)]
             ELSE [f EXCEPT !.i = @ + 1]

\* line 108: cmd.select(selName1, selName1 or (model and i. resi))
Line108(f) ==
    LET e == f.r[f.i]
    IN  [Goto(f, 98) EXCEPT
            !.selections[selName1(f)] =
                @ \cup Members(e[1], {x \in Range(f.objects[e[1]]) : x.resi = e[2]}),
            !.i = @ + 1]

\* line 111: cmd.select(selName, cmpx + " in " + selName1)
Line111(f) ==
    [Goto(f, 113) EXCEPT
        !.selections = Put(@, f.a.selName,
            Members(f.a.cmpx,
                    {y \in Range(f.objects[f.a.cmpx]) :
                        \E s \in f.selections[selName1(f)] :
                            s.chain = y.chain /\ s.resi = y.resi}))]

\* lines 113-116: cmd.delete(selName1), (chA), (chB), (tempC)
Line113(f) == Goto(HostDelete(f, selName1(f)), 114)

Line114(f) == Goto(HostDelete(f, chA), 115)

Line115(f) == Goto(HostDelete(f, chB), 116)

\* The routine without cmd.delete(tempC).
Line116Forgotten(f) == Goto(f, 118)

Line116(f) == Goto(HostDelete(f, tempC), 118)

\* line 118: cmd.enable(selName)
Line118(f) == [Goto(f, 121) EXCEPT !.enabled = @ \cup {f.a.selName}]

\* The routine without its last cmd.set.
Line121Forgotten(f) == Goto(f, 123)

\* line 121: cmd.set("dot_solvent", oldDS)
Line121(f) == [Goto(f, 123) EXCEPT !.settings = cmd_set(@, "dot_solvent", f.oldDS)]

\* line 123: return rVal
Line123(f) == [f EXCEPT !.status = "returned"]

\* The lines that issue a host command.
HostLines ==
    {60, 61, 68, 69, 72, 75, 77, 82, 83, 84, 85, 88, 94, 96, 97, 108,
     111, 113, 114, 115, 116, 118, 121}

\* The host command about to be issued fails: it is the failAt-th of the
\* call, or it names a complex the session does not hold.
HostFails(f) ==
    \/ f.calls + 1 = f.a.failAt
    \/ f.pc = 68 /\ f.a.cmpx \notin DOMAIN f.objects

Statement(f) ==
    CASE f.pc = 60 -> Line60(f)   [] f.pc = 61 -> Line61(f)
      [] f.pc = 68 -> Line68(f)   [] f.pc = 69 -> Line69(f)
      [] f.pc = 72 -> Line72(f)   [] f.pc = 75 -> Line75(f)
      [] f.pc = 77 -> Line77(f)   [] f.pc = 82 -> Line82(f)
      [] f.pc = 83 -> Line83(f)   [] f.pc = 84 -> Line84(f)
      [] f.pc = 85 -> Line85(f)   [] f.pc = 88 -> Line88(f)
      [] f.pc = 93 -> Line93(f)   [] f.pc = 94 -> Line94(f)
      [] f.pc = 96 -> Line96(f)   [] f.pc = 97 -> Line97(f)
      [] f.pc = 98 -> Line98(f)   [] f.pc = 108 -> Line108(f)
      [] f.pc = 111 -> Line111(f) [] f.pc = 113 -> Line113(f)
      [] f.pc = 114 -> Line114(f) [] f.pc = 115 -> Line115(f)
      [] f.pc = 116 -> Line116(f) [] f.pc = 118 -> Line118(f)
      [] f.pc = 121 -> Line121(f) [] f.pc = 123 -> Line123(f)

Step(f) ==
    IF f.pc \in HostLines
    THEN IF HostFails(f) THEN Raise(f)
         ELSE Statement([f EXCEPT !.calls = @ + 1])
    ELSE Statement(f)

RECURSIVE Run(_)
Run(f) == IF f.status = "running" THEN Run(Step(f)) ELSE f

-----------------------------------------------------------------------------
(* The camera *)

\* The view of a fresh session (cmd.reinitialize).
DefaultView == [k \in 1..18 |-> "default"]

\* cmd.load zooms on the loaded object: position, origin and clipping planes
\* (values 10 to 17) follow its coordinates.
Zoomed(v) == [k \in 1..18 |-> IF k \in 10..17 THEN "host" ELSE v[k]]

\* lines 153-159: the view of configuration '1'
InitView1 ==
    <<"0.547810793", "0.809414983", "0.211547419",
      "-0.178774685", "0.360282600", "-0.915552616",
      "-0.817279518", "0.463730723", "0.342069268",
      "0.000000000", "0.000000000", "-257.350799561",
      "28.792110443", "50.535285950", "52.779388428",
      "202.897338867", "311.804260254", "-20.000000000" >>

\* lines 161-167: the view of configuration '2'
InitView2 ==
    <<"-0.739635348", "-0.367862731", "-0.563574135",
      "0.143549025", "-0.904357791", "0.401908547",
      "-0.657520115", "0.216365919", "0.721703112",
      "0.000000000", "0.000000000", "-299.573425293",
      "67.182876587", "45.570850372", "51.338077545",
      "-32216.630859375", "32815.777343750", "-20.000000000" >>

\* lines 184-190: the view reset_view sets for '1'
ResetView1 ==
    <<"0.547810793", "0.809414983", "0.211547419",
      "-0.178774685", "0.360282600", "-0.915552616",
      "-0.817279518", "0.463730723", "0.342069268",
      "0.000000000", "0.000000000", "-257.350799561",
      "28.792110443", "50.535285950", "52.779388428",
      "202.897338867", "311.804260254", "-20.000000000" >>

\* The view of '2' with the sign of one matrix entry lost.
ResetView2Slip ==
    <<"-0.739635348", "-0.367862731", "-0.563574135",
      "0.143549025", "0.904357791", "0.401908547",
      "-0.657520115", "0.216365919", "0.721703112",
      "0.000000000", "0.000000000", "-299.573425293",
      "67.182876587", "45.570850372", "51.338077545",
      "-32216.630859375", "32815.777343750", "-20.000000000" >>

\* lines 192-198: the view reset_view sets for '2'
ResetView2 ==
    <<"-0.739635348", "-0.367862731", "-0.563574135",
      "0.143549025", "-0.904357791", "0.401908547",
      "-0.657520115", "0.216365919", "0.721703112",
      "0.000000000", "0.000000000", "-299.573425293",
      "67.182876587", "45.570850372", "51.338077545",
      "-32216.630859375", "32815.777343750", "-20.000000000" >>

-----------------------------------------------------------------------------
(* The session as one record, and its installation as the next state *)

Session ==
    [settings |-> settings, objects |-> objects, enabled |-> enabled,
     selections |-> selections, view |-> view, display |-> display,
     palette |-> palette, colorBy |-> colorBy, displaced |-> displaced]

Install(h) ==
    /\ settings' = h.settings
    /\ objects' = h.objects
    /\ enabled' = h.enabled
    /\ selections' = h.selections
    /\ view' = h.view
    /\ display' = h.display
    /\ palette' = h.palette
    /\ colorBy' = h.colorBy
    /\ displaced' = h.displaced

\* The session PyMOL starts with, and cmd.reinitialize() restores.
Fresh ==
    [settings |-> DefaultSettings, objects |-> EmptyMap, enabled |-> {},
     selections |-> EmptyMap, view |-> DefaultView,
     display |-> [surface |-> FALSE, colorA |-> "default", colorB |-> "default"],
     palette |-> EmptyMap, colorBy |-> {}, displaced |-> 0]

NoOrientation == [config |-> "none", view |-> DefaultView]

Names == (DOMAIN objects) \cup (DOMAIN selections)

-----------------------------------------------------------------------------
(* initial_orientation, reset_view, split_chains, ray_settings,            *)
(* hydrophobicity                                                          *)

\* line 145-146: pathMtrx = path.split('/'); filename = pathMtrx[len(pathMtrx) - 1]
\* (a path is the sequence of its segments)
Filename(path) == path[Len(path)]

\* line 147: model = filename.replace(".pdb", "")
ModelName(filename) == SelectSeq(filename, LAMBDA part : part # ".pdb")

\* The name cmd.load gives the object: the file's name without its extension.
LoadedName(filename) == <<filename[1]>>

\* lines 152-167: the view initial_orientation sets, if any
OrientationView(config, v) ==
    IF config = "1" THEN InitView1
    ELSE IF config = "2" THEN InitView2
    ELSE v

\* lines 143-167.  The result is [h, status]: the session the routine leaves
\* and whether it returned or a host command raised (cmd.load of a file that
\* is not there, cmd.set_name of a name the session does not hold).
initial_orientation(path, config, found, atoms) ==
    LET filename == Filename(path)
        model == ModelName(filename)
        loaded == [Fresh EXCEPT !.objects = Put(@, LoadedName(filename), atoms),
                                !.enabled = {LoadedName(filename)},
                                !.view = Zoomed(@)]
        named == [loaded EXCEPT !.objects = Put(Drop(@, model), N("OM"), loaded.objects[model]),
                                !.enabled = (@ \ {model}) \cup {N("OM")}]
        shown == [named EXCEPT !.display = [surface |-> TRUE, colorA |-> "skyblue",
                                            colorB |-> "orange"]]
    IN  IF ~found THEN [h |-> Fresh, status |-> "raised"]
        ELSE IF model \notin DOMAIN loaded.objects THEN [h |-> loaded, status |-> "raised"]
        ELSE [h |-> [shown EXCEPT !.view = OrientationView(config, @)],
              status |-> "returned"]

\* lines 183-198: the view reset_view leaves
reset_view(config, v) ==
    IF config = "1" THEN ResetView1
    ELSE IF config = "2" THEN ResetView2
    ELSE v

\* cmd.center() and cmd.move("x", -10): the camera's position, origin and
\* clipping planes follow the moved coordinates.
Recentred(v) == [k \in 1..18 |-> IF k \in 10..17 THEN "host" ELSE v[k]]

\* Every atom of the session in the given chain, as a selection.
ChainMembers(h, chain) ==
    UNION {Members(o, {x \in Range(h.objects[o]) : x.chain = chain}) :
              o \in DOMAIN h.objects}

\* lines 215-223
split_chains(h) ==
    [h EXCEPT !.selections = Put(Put(@, N("MBP"), ChainMembers(h, "B")),
                                 N("OSM"), ChainMembers(h, "A")),
              !.displaced = @ + 1,
              !.view = Recentred(@)]

\* lines 237-243
ray_settings(st) ==
    [st EXCEPT !["ray_trace_fog"] = "0", !["ray_shadows"] = "0",
               !["depth_cue"] = "off", !["bg_color"] = "white",
               !["antialias"] = "2", !["hash_max"] = "300", !["ambient"] = ".4"]

\* lines 286-305: the colours cmd.set_color defines
EisenbergColors ==
    {<<"color_ile3", <<71, 67, 243>>>>, <<"color_phe3", <<88, 76, 244>>>>,
     <<"color_val3", <<103, 86, 245>>>>, <<"color_leu3", <<116, 95, 246>>>>,
     <<"color_trp3", <<128, 105, 247>>>>, <<"color_met3", <<139, 115, 248>>>>,
     <<"color_ala3", <<149, 124, 249>>>>, <<"color_gly3", <<159, 134, 250>>>>,
     <<"color_cys3", <<168, 144, 250>>>>, <<"color_tyr3", <<177, 153, 251>>>>,
     <<"color_pro3", <<186, 163, 252>>>>, <<"color_thr3", <<194, 173, 252>>>>,
     <<"color_ser3", <<202, 183, 253>>>>, <<"color_his3", <<210, 193, 253>>>>,
     <<"color_glu3", <<218, 203, 254>>>>, <<"color_asn3", <<226, 214, 254>>>>,
     <<"color_gln3", <<233, 224, 254>>>>, <<"color_asp3", <<241, 234, 255>>>>,
     <<"color_lys3", <<248, 245, 255>>>>, <<"color_arg3", <<255, 255, 255>>>>}

\* lines 306-325: the colour cmd.color gives each residue name
ResidueColors ==
    {<<"ile", "color_ile3">>, <<"phe", "color_phe3">>, <<"val", "color_val3">>,
     <<"leu", "color_leu3">>, <<"trp", "color_trp3">>, <<"met", "color_met3">>,
     <<"ala", "color_ala3">>, <<"gly", "color_gly3">>, <<"cys", "color_cys3">>,
     <<"tyr", "color_tyr3">>, <<"pro", "color_pro3">>, <<"thr", "color_thr3">>,
     <<"ser", "color_ser3">>, <<"his", "color_his3">>, <<"glu", "color_glu3">>,
     <<"asn", "color_asn3">>, <<"gln", "color_gln3">>, <<"asp", "color_asp3">>,
     <<"lys", "color_lys3">>, <<"arg", "color_arg3">>}

\* lines 284-325
hydrophobicity(h, selection) ==
    [h EXCEPT !.palette = [c \in (DOMAIN @) \cup {x[1] : x \in EisenbergColors} |->
                              IF \E x \in EisenbergColors : x[1] = c
                              THEN (CHOOSE x \in EisenbergColors : x[1] = c)[2]
                              ELSE @[c]],
              !.colorBy = @ \cup {<<selection, x[1], x[2]>> : x \in ResidueColors}]

-----------------------------------------------------------------------------
(* Inputs *)

Dock1 == <<N("original-models"), <<"dock1", ".pdb">>>>

Dock2 == <<<<"dock2", ".pdb">>>>

Dock1Ent == <<<<"dock1", ".ent">>>>

Missing == <<<<"missing", ".pdb">>>>

Paths == {Dock1, Dock2, Dock1Ent, Missing}

Atom(chain, resi, d) == [chain |-> chain, resi |-> resi, d |-> d]

\* The files on disk and the atoms each holds: a complex of chains A and B
\* with a ligand chain X, a complex of A and B, and a single chain.
Disk ==
    [path \in Paths \ {Missing} |->
        IF path = Dock1
        THEN <<Atom("A", "1", 1), Atom("A", "1", 0), Atom("X", "1", 0), Atom("B", "7", 1)>>
        ELSE IF path = Dock2
        THEN <<Atom("A", "1", 0), Atom("B", "2", 1)>>
        ELSE <<Atom("A", "1", 0)>>]

Configs == {"1", "2", "3"}

\* The complexes a search is asked for: the object initial_orientation names
\* and the object a file it could not rename leaves.
Complexes == {N("OM"), N("dock1")}

Cutoffs == 0..MaxCutoff

\* line 13: cutoff=1.0
DefaultCutoff == 1

SelNames == {N("interface")}

ColourSelections == {"all"}

\* The complexes of the interface search: chains A and B only.
ComplexAtoms == SeqsUpTo(AtomsOf({"A", "B"}), MaxAtoms)

\* A call issues one host command per host line, line 108 once per kept entry.
FailPoints == 0..(Cardinality(HostLines) - 1 + Len(Disk[Dock1]))

-----------------------------------------------------------------------------
(* Actions: one per command, each the whole call *)

NoBefore == [ds |-> "off", names |-> {}]

\* What a call of interfaceResidues found: dot_solvent and the session's names.
Before == [ds |-> settings["dot_solvent"], names |-> Names]

Done(cmd, status, at, a, ret, pre) ==
    last' = [cmd |-> cmd, status |-> status, at |-> at, a |-> a, ret |-> ret,
             pre |-> pre]

InterfaceResidues(cmpx, cA, cB, cutoff, selName, failAt) ==
    LET a == [cmpx |-> cmpx, cA |-> cA, cB |-> cB, cutoff |-> cutoff,
              selName |-> selName, failAt |-> failAt]
        f == Run([pc |-> 60, status |-> "running", calls |-> 0, a |-> a,
                  settings |-> settings, objects |-> objects, enabled |-> enabled,
                  selections |-> selections, oldDS |-> "unbound", r |-> stored_r,
                  rVal |-> <<>>, seen |-> <<>>, i |-> 0])
    IN  /\ settings' = f.settings
        /\ objects' = f.objects
        /\ enabled' = f.enabled
        /\ selections' = f.selections
        /\ stored_r' = f.r
        /\ Done("interfaceResidues", f.status, f.pc,
                [cmpx |-> cmpx, cutoff |-> cutoff, selName |-> selName],
                IF f.status = "returned" THEN f.rVal ELSE <<>>, Before)
        /\ UNCHANGED <<view, display, palette, colorBy, displaced, oriented>>

InitialOrientation(path, config) ==
    LET found == path \in DOMAIN Disk
        res == initial_orientation(path, config, found,
                                   IF found THEN Disk[path] ELSE <<>>)
    IN  /\ Install(res.h)
        /\ oriented' = IF res.status = "returned"
                       THEN [config |-> config, view |-> res.h.view]
                       ELSE NoOrientation
        /\ Done("initial_orientation", res.status, 0, [config |-> config], <<>>, NoBefore)
        /\ UNCHANGED stored_r

ResetView(config) ==
    /\ view' = reset_view(config, view)
    /\ Done("reset_view", "returned", 0, [config |-> config], <<>>, NoBefore)
    /\ UNCHANGED <<settings, objects, enabled, selections, display, palette,
                   colorBy, displaced, stored_r, oriented>>

SplitChains ==
    /\ displaced < MaxSplits
    /\ Install(split_chains(Session))
    /\ Done("split_chains", "returned", 0, <<>>, <<>>, NoBefore)
    /\ UNCHANGED <<stored_r, oriented>>

RaySettings ==
    /\ settings' = ray_settings(settings)
    /\ Done("ray_settings", "returned", 0, <<>>, <<>>, NoBefore)
    /\ UNCHANGED <<objects, enabled, selections, view, display, palette, colorBy,
                   displaced, stored_r, oriented>>

Hydrophobicity(selection) ==
    /\ Install(hydrophobicity(Session, selection))
    /\ Done("hydrophobicity", "returned", 0, [selection |-> selection], <<>>, NoBefore)
    /\ UNCHANGED <<stored_r, oriented>>

-----------------------------------------------------------------------------
(* The session starts fresh *)

Init ==
    /\ settings = Fresh.settings
    /\ objects = Fresh.objects
    /\ enabled = Fresh.enabled
    /\ selections = Fresh.selections
    /\ view = Fresh.view
    /\ display = Fresh.display
    /\ palette = Fresh.palette
    /\ colorBy = Fresh.colorBy
    /\ displaced = Fresh.displaced
    /\ stored_r = <<>>
    /\ oriented = NoOrientation
    /\ last = [cmd |-> "start", status |-> "returned", at |-> 0, a |-> <<>>,
               ret |-> <<>>, pre |-> NoBefore]

CallInterfaceResidues ==
    \E cmpx \in Complexes, selName \in SelNames, failAt \in FailPoints :
        InterfaceResidues(cmpx, "A", "B", DefaultCutoff, selName, failAt)

CallInitialOrientation ==
    \E path \in Paths, config \in Configs : InitialOrientation(path, config)

CallResetView == \E config \in Configs : ResetView(config)

CallHydrophobicity == \E selection \in ColourSelections : Hydrophobicity(selection)

\* Spec: interface searches in which any host command may fail, on the
\* sessions initial_orientation and earlier searches leave.
LoadComplex == \E path \in Paths : InitialOrientation(path, "1")

Next ==
    \/ CallInterfaceResidues
    \/ LoadComplex

Spec == Init /\ [][Next]_vars

\* SpecNames: as Spec, the searches also asked for the copy a failed search
\* left behind; the host command that fails, if any, is the fifth
\* (cmd.remove at line 72, which is given the chain selections cA and cB).
SearchAnyName ==
    \E cmpx \in Complexes \cup {tempC}, failAt \in {0, 5} :
        InterfaceResidues(cmpx, "A", "B", DefaultCutoff, N("interface"), failAt)

NextNames ==
    \/ SearchAnyName
    \/ LoadComplex

SpecNames == Init /\ [][NextNames]_vars

\* SpecView: every command, interfaceResidues with its default arguments.
SearchDefault ==
    \E cmpx \in Complexes :
        InterfaceResidues(cmpx, "A", "B", DefaultCutoff, N("interface"), 0)

NextView ==
    \/ SearchDefault
    \/ CallInitialOrientation
    \/ CallResetView
    \/ SplitChains
    \/ RaySettings
    \/ CallHydrophobicity

SpecView == Init /\ [][NextView]_vars

-----------------------------------------------------------------------------
(* SpecFilter: interface searches, none failing, on a complex loaded with  *)
(* initial_orientation; the complex's atoms are drawn at the start.        *)

InitFilter ==
    \E atoms \in ComplexAtoms :
        LET res == initial_orientation(Dock1, "1", TRUE, atoms)
        IN  /\ settings = res.h.settings
            /\ objects = res.h.objects
            /\ enabled = res.h.enabled
            /\ selections = res.h.selections
            /\ view = res.h.view
            /\ display = res.h.display
            /\ palette = res.h.palette
            /\ colorBy = res.h.colorBy
            /\ displaced = res.h.displaced
            /\ stored_r = <<>>
            /\ oriented = [config |-> "1", view |-> res.h.view]
            /\ last = [cmd |-> "initial_orientation", status |-> "returned", at |-> 0,
                       a |-> [config |-> "1"], ret |-> <<>>,
                       pre |-> NoBefore]

SearchInterface ==
    \E cutoff \in Cutoffs :
        InterfaceResidues(N("OM"), "A", "B", cutoff, N("interface"), 0)

NextFilter == SearchInterface

SpecFilter == InitFilter /\ [][NextFilter]_vars

-----------------------------------------------------------------------------
(* Claims *)

Searched == last.cmd = "interfaceResidues"

Returned == Searched /\ last.status = "returned"

Raised == Searched /\ last.status = "raised"

\* The (model, residue number) pair of an entry (model, resi, diff).
Residue(e) == <<e[1], e[2]>>

\* The chain a residue of chA or chB has in the complex (cA = A, cB = B).
ChainOf(model) == IF model = chA THEN "A" ELSE "B"

\* The residue as a member of the selection made on the complex.
InComplex(res) == [obj |-> last.a.cmpx, chain |-> ChainOf(res[1]), resi |-> res[2]]

\* C1: interfaceResidues keeps a residue only when its difference is strictly
\* above the cutoff: a residue of the returned list or of the selection has an
\* atom whose difference is greater than the cutoff, and every residue with
\* such an atom is in the list and in the selection.
C1_KeptIffAboveCutoff ==
    Returned =>
        /\ \A e \in Range(stored_r) :
               e[3] > last.a.cutoff =>
                   /\ \E k \in Range(last.ret) : Residue(k) = Residue(e)
                   /\ InComplex(Residue(e)) \in selections[last.a.selName]
        /\ \A k \in Range(last.ret) :
               \E e \in Range(stored_r) :
                   Residue(e) = Residue(k) /\ e[3] > last.a.cutoff
        /\ \A m \in selections[last.a.selName] :
               \E e \in Range(stored_r) :
                   InComplex(Residue(e)) = m /\ e[3] > last.a.cutoff

\* C2: with cutoff zero every residue the host iterates over is in the
\* returned list, whatever its difference.
C2_ZeroKeepsAll ==
    (Returned /\ last.a.cutoff = 0) =>
        \A e \in Range(stored_r) : \E k \in Range(last.ret) : Residue(k) = Residue(e)

\* A search with cutoff zero over a residue of negative difference and a
\* residue of difference zero, both returned.
C2_Witness ==
    /\ Returned /\ last.a.cutoff = 0
    /\ \E e1, e2 \in Range(stored_r) :
           /\ e1[3] < 0 /\ e2[3] = 0
           /\ {e1, e2} \subseteq Range(last.ret)

\* C3: reset_view(config), for config '1' or '2', leaves the camera at the view
\* the last initial_orientation with that config set, whatever commands ran
\* in between.
C3_ResetViewRestores ==
    (/\ last.cmd = "reset_view"
     /\ last.a.config \in {"1", "2"}
     /\ oriented.config = last.a.config) => view = oriented.view

\* reset_view('2') after initial_orientation(path, '2') and a split_chains
\* that moved the camera.
C3_Witness ==
    /\ last.cmd = "reset_view"
    /\ last.a.config = "2"
    /\ oriented.config = "2"
    /\ displaced > 0
    /\ view = oriented.view

\* C4: when interfaceResidues returns, dot_solvent has the value it had before
\* the call.
C4_DotSolventRestored == Returned => settings["dot_solvent"] = last.pre.ds

\* A search that returned in a session whose dot_solvent was on before it.
C4_Witness ==
    Returned /\ last.pre.ds = "on" /\ settings["dot_solvent"] = "on"

\* C5: when interfaceResidues returns, none of its temporary names exists, the
\* only name it added is selName, and the complex is enabled.
C5_CleansUp ==
    Returned =>
        /\ {tempC, chA, chB, last.a.selName \o <<"1">>} \cap Names = {}
        /\ Names \ last.pre.names \subseteq {last.a.selName}
        /\ last.a.cmpx \in enabled

\* C5, for a complex that is not named as the routine names its copy: the
\* temporaries are gone, selName is the only name added, the complex is enabled.
C5_CleansUpOtherNames ==
    (Returned /\ last.a.cmpx # tempC) =>
        /\ {tempC, chA, chB, last.a.selName \o <<"1">>} \cap Names = {}
        /\ Names \ last.pre.names \subseteq {last.a.selName}
        /\ last.a.cmpx \in enabled

\* C6: a host command that fails ends the routine there (last.at is the line
\* that raised): dot_solvent stays on once line 61 has run, the complex stays
\* disabled from line 69 until line 96 has run, the temporaries created so far
\* stay, and the selection selName is not made before line 111 has run.
C6_FailureLeavesState ==
    Raised =>
        /\ last.at > 61 => settings["dot_solvent"] = "on"
        /\ last.at <= 61 => settings["dot_solvent"] = last.pre.ds
        /\ (last.at > 69 /\ last.at <= 96) => last.a.cmpx \notin enabled
        /\ (last.at > 68 /\ last.at <= 116) => tempC \in DOMAIN objects
        /\ (last.at > 82 /\ last.at <= 114) => chA \in DOMAIN objects
        /\ (last.at > 83 /\ last.at <= 115) => chB \in DOMAIN objects
        /\ (last.at > 97 /\ last.at <= 113) =>
               (last.a.selName \o <<"1">>) \in DOMAIN selections
        /\ (last.at <= 111 /\ last.a.selName \in Names) =>
               last.a.selName \in last.pre.names

\* cmd.alter at line 88 failed in a session whose dot_solvent was off: it is
\* on, the complex is disabled and tempComplex, chA and chB are there.
C6_Witness ==
    /\ Raised /\ last.at = 88
    /\ last.pre.ds = "off" /\ settings["dot_solvent"] = "on"
    /\ last.a.cmpx \notin enabled
    /\ {tempC, chA, chB} \subseteq DOMAIN objects
    /\ {tempC, chA, chB} \cap last.pre.names = {}

\* The positions of stored.r whose entry passes the cutoff and whose residue
\* no earlier passing entry has.
FirstPasses ==
    {i \in 1..Len(stored_r) :
        /\ OverCutoff(stored_r[i][3], last.a.cutoff)
        /\ \A j \in 1..(i - 1) :
               ~(/\ OverCutoff(stored_r[j][3], last.a.cutoff)
                 /\ Residue(stored_r[j]) = Residue(stored_r[i]))}

\* C7: the returned list holds each (model, residue) pair at most once: it is
\* the entries of this call's iteration that are the first of their residue to
\* pass, in iteration order; the iteration has one entry per atom of the two
\* chains of the complex, none from an earlier call.
C7_FirstPassOnceInOrder ==
    Returned =>
        /\ \A m, n \in 1..Len(last.ret) :
               Residue(last.ret[m]) = Residue(last.ret[n]) => m = n
        /\ Len(last.ret) = Cardinality(FirstPasses)
        /\ \A m \in 1..Len(last.ret) :
               \E i \in FirstPasses :
                   /\ Cardinality({j \in FirstPasses : j < i}) = m - 1
                   /\ last.ret[m] = stored_r[i]
        /\ Len(stored_r) =
               Len(SelectSeq(objects[last.a.cmpx], LAMBDA x : x.chain \in {"A", "B"}))

\* Two atoms of one residue pass with different differences: the list has
\* the first atom's entry alone.
C7_Witness ==
    /\ Returned
    /\ Len(stored_r) = 2
    /\ Residue(stored_r[1]) = Residue(stored_r[2])
    /\ stored_r[1][3] # stored_r[2][3]
    /\ OverCutoff(stored_r[1][3], last.a.cutoff)
    /\ OverCutoff(stored_r[2][3], last.a.cutoff)
    /\ last.ret = <<stored_r[1]>>

====
